---- MODULE Spec2Model ----
(***************************************************************************)
(* Tool extraction of openapi-mcp-generator:                               *)
(*   - the x-mcp inclusion filter (utils/helpers.ts),                      *)
(*   - extractToolsFromApi, generateInputSchemaAndDetails and              *)
(*     mapOpenApiSchemaToJsonSchema (parser/extract-tools.ts).             *)
(*                                                                         *)
(* JavaScript values are tagged records ([k |-> "undef"], [k |-> "bool",   *)
(* b |-> TRUE], ...); strings that the code inspects character by          *)
(* character are sequences of one-character strings.                       *)
(***************************************************************************)
EXTENDS Integers, Sequences, FiniteSets, TLC

VARIABLES
  \* one call of shouldIncludeOperationForMcp
  opRaw, pathRaw, rootRaw, defaultInclude, decision, warnings,
  \* one run of extractToolsFromApi
  api, pathIdx, methodIdx, usedNames, tools, pc,
  \* one call of generateInputSchemaAndDetails
  operation, pathItem, details,
  \* one top-level call of mapOpenApiSchemaToJsonSchema
  heap, arrays, schema, mapped, visited

filterVars  == <<opRaw, pathRaw, rootRaw, decision, warnings>>
extractVars == <<api, pathIdx, methodIdx, usedNames, tools, pc>>
detailVars  == <<operation, pathItem, details>>
mapVars     == <<heap, arrays, schema, mapped, visited>>
vars == <<filterVars, defaultInclude, extractVars, detailVars, mapVars>>

-----------------------------------------------------------------------------
(* JavaScript values *)

Undef   == [k |-> "undef"]
Null    == [k |-> "null"]
Bool(b) == [k |-> "bool", b |-> b]
Str(s)  == [k |-> "str", s |-> s]       \* a string used as a whole
Chars(s) == [k |-> "chars", s |-> s]    \* a string as its characters
Num(n)  == [k |-> "num", n |-> n]
Obj     == [k |-> "obj"]

\* the value a call has not produced yet
Pending == [k |-> "pending"]

-----------------------------------------------------------------------------
(* String.prototype.trim and String.prototype.toLowerCase *)

UpperCase == <<"A", "B", "C", "D", "E", "F", "G", "H", "I", "J", "K", "L", "M",
               "N", "O", "P", "Q", "R", "S", "T", "U", "V", "W", "X", "Y", "Z">>
LowerCase == <<"a", "b", "c", "d", "e", "f", "g", "h", "i", "j", "k", "l", "m",
               "n", "o", "p", "q", "r", "s", "t", "u", "v", "w", "x", "y", "z">>
Digits    == <<"0", "1", "2", "3", "4", "5", "6", "7", "8", "9">>
WhiteSpace == {" ", "\t", "\n"}

Range(f) == {f[i] : i \in DOMAIN f}

ToLowerChar(c) ==
  IF \E i \in DOMAIN UpperCase : UpperCase[i] = c
  THEN LowerCase[CHOOSE i \in DOMAIN UpperCase : UpperCase[i] = c]
  ELSE c

ToLowerCase(s) == [i \in DOMAIN s |-> ToLowerChar(s[i])]

RECURSIVE TrimStart(_)
TrimStart(s) ==
  IF s # <<>> /\ Head(s) \in WhiteSpace THEN TrimStart(Tail(s)) ELSE s

RECURSIVE TrimEnd(_)
TrimEnd(s) ==
  IF s # <<>> /\ s[Len(s)] \in WhiteSpace
  THEN TrimEnd(SubSeq(s, 1, Len(s) - 1)) ELSE s

Trim(s) == TrimEnd(TrimStart(s))

-----------------------------------------------------------------------------
(* utils/helpers.ts: normalizeBoolean, shouldIncludeOperationForMcp *)

TrueWords  == {<<"t", "r", "u", "e">>, <<"1">>, <<"y", "e", "s">>, <<"o", "n">>}
FalseWords == {<<"f", "a", "l", "s", "e">>, <<"0">>, <<"n", "o">>, <<"o", "f", "f">>}

normalizeBoolean(value) ==
  IF value.k = "bool" THEN value
  ELSE IF value.k = "chars" THEN
    LET normalized == ToLowerCase(Trim(value.s)) IN
      IF normalized \in TrueWords THEN Bool(TRUE)
      ELSE IF normalized \in FalseWords THEN Bool(FALSE)
      ELSE Undef
  ELSE Undef

\* console.warn of a present value that does not normalize
WarnAt(scope, raw) ==
  IF raw # Undef THEN <<[scope |-> scope, raw |-> raw]>> ELSE <<>>

\* shouldIncludeRun with the root value consulted before the path value
shouldIncludeRunRootFirst(root, path, op, dflt) ==
  LET opVal   == normalizeBoolean(op)
      pathVal == normalizeBoolean(path)
      rootVal == normalizeBoolean(root)
  IN  IF opVal # Undef THEN [ret |-> opVal.b, warn |-> <<>>]
      ELSE IF rootVal # Undef THEN [ret |-> rootVal.b, warn |-> WarnAt("operation", op)]
      ELSE IF pathVal # Undef
        THEN [ret |-> pathVal.b, warn |-> WarnAt("operation", op) \o WarnAt("root", root)]
      ELSE [ret |-> dflt,
            warn |-> WarnAt("operation", op) \o WarnAt("root", root) \o WarnAt("path", path)]

\* the call's return value and the warnings it emits, in order
shouldIncludeRun(root, path, op, dflt) ==
  LET opVal   == normalizeBoolean(op)
      pathVal == normalizeBoolean(path)
      rootVal == normalizeBoolean(root)
      w1 == WarnAt("operation", op)
      w2 == w1 \o WarnAt("path", path)
      w3 == w2 \o WarnAt("root", root)
  IN  IF opVal # Undef THEN [ret |-> opVal.b, warn |-> <<>>]
      ELSE IF pathVal # Undef THEN [ret |-> pathVal.b, warn |-> w1]
      ELSE IF rootVal # Undef THEN [ret |-> rootVal.b, warn |-> w2]
      ELSE [ret |-> dflt, warn |-> w3]

shouldIncludeOperationForMcp(root, path, op, dflt) ==
  shouldIncludeRun(root, path, op, dflt).ret

\* an x-mcp property whose read raises (an accessor that throws)
Raises == [k |-> "raises"]

\* the call raises: one of the reads (operation as any)['x-mcp'],
\* (pathItem as any)['x-mcp'], (api as any)['x-mcp'] is reached and raises
shouldIncludeRaises(root, path, op) ==
  \/ op = Raises
  \/ /\ normalizeBoolean(op) = Undef
     /\ \/ path = Raises
        \/ /\ normalizeBoolean(path) = Undef
           /\ root = Raises

-----------------------------------------------------------------------------
(* Schema objects.                                                         *)
(* The input document is a heap: heap[id] is the schema object with        *)
(* identity id, arrays[a] the array object with identity a (the value of a *)
(* type field that lists several types).  A position that holds a schema   *)
(* holds Node(id), a boolean, or nothing.                                  *)

Node(id) == [k |-> "node", id |-> id]
Map(entries) == [k |-> "map", entries |-> entries]   \* entries: <<[key, val], ...>>
Entry(key, val) == [key |-> key, val |-> val]

TStr(s) == [k |-> "tstr", s |-> s]      \* type: 'integer'
TArr(a) == [k |-> "tarr", a |-> a]      \* type: the array object a
TLit(v) == [k |-> "tlit", v |-> v]      \* type: an array created by the mapper

\* a JSON schema object created by the mapper
Schema(type, props, items, description, extras) ==
  [k |-> "schema", type |-> type, props |-> props, items |-> items,
   description |-> description, extras |-> extras]

GenericObject == Schema(TStr("object"), Undef, Undef, Undef, {})

\* a thrown TypeError
TypeError == [k |-> "TypeError"]

\* delete jsonSchema.nullable / example / xml / externalDocs / deprecated /
\* readOnly / writeOnly (nullable is a field of its own in the heap)
Stripped == {"example", "xml", "externalDocs", "deprecated", "readOnly", "writeOnly"}

-----------------------------------------------------------------------------
(* parser/extract-tools.ts: mapOpenApiSchemaToJsonSchema                   *)
(* The result is [out, arrays, seen]: the returned value (or the error     *)
(* thrown), the array objects and the seen set as the call leaves them.    *)

RECURSIVE mapOpenApiSchemaToJsonSchema(_, _, _, _)
RECURSIVE MapProperties(_, _, _, _, _, _)

Returned(out, arrs) == [out |-> out, arrays |-> arrs]

Result(out, arrs, seen) == [out |-> out, arrays |-> arrs, seen |-> seen]

\* mappedProps[key] = <the mapped property>, unless the call threw
MapRest(h, entries, seen, i, acc, key, r) ==
  IF r.out = TypeError THEN r
  ELSE MapProperties(h, r.arrays, entries, r.seen, i + 1, Append(acc, Entry(key, r.out)))

\* for (const [key, propSchema] of Object.entries(jsonSchema.properties))
MapProperties(h, arrs, entries, seen, i, acc) ==
  IF i > Len(entries) THEN Result(Map(acc), arrs, seen)
  ELSE IF entries[i].val.k = "node" THEN
    MapRest(h, entries, seen, i, acc, entries[i].key,
            mapOpenApiSchemaToJsonSchema(h, arrs, entries[i].val, seen))
  ELSE IF entries[i].val.k = "bool" THEN
    MapProperties(h, arrs, entries, seen, i + 1, Append(acc, entries[i]))
  ELSE
    MapProperties(h, arrs, entries, seen, i + 1, acc)

\* if (schema.type === 'integer') jsonSchema.type = 'number'
ConvertedType(n) == IF n.type = TStr("integer") THEN TStr("number") ELSE n.type

\* if (schema.nullable) { ... }: the type field of the copy
FoldedType(n, type1) ==
  IF ~n.nullable THEN type1
  ELSE IF type1.k = "tarr" THEN type1
  ELSE IF type1.k = "tstr" THEN TLit(<<type1.s, "null">>)
  ELSE TStr("null")

\* if (!jsonSchema.type.includes('null')) jsonSchema.type.push('null')
FoldedArrays(arrs, n, type1) ==
  IF n.nullable /\ type1.k = "tarr" /\ "null" \notin Range(arrs[type1.a])
  THEN [arrs EXCEPT ![type1.a] = Append(@, "null")]
  ELSE arrs

\* if (jsonSchema.type === 'object' && jsonSchema.properties) { ... }
MappedProperties(h, arrs, n, type2, seen) ==
  IF type2 = TStr("object") /\ n.props # Undef
  THEN MapProperties(h, arrs, n.props.entries, seen, 1, <<>>)
  ELSE Result(n.props, arrs, seen)

\* if (jsonSchema.type === 'array' && typeof jsonSchema.items === 'object' && ...)
MappedItems(h, arrs, n, type2, seen) ==
  IF type2 = TStr("array") /\ n.items.k = "node"
  THEN mapOpenApiSchemaToJsonSchema(h, arrs, n.items, seen)
  ELSE Result(n.items, arrs, seen)

\* return jsonSchema
Finished(n, type2, pr, it) ==
  IF it.out = TypeError THEN it
  ELSE Result(Schema(type2, pr.out, it.out, n.description, n.extras \ Stripped),
              it.arrays, it.seen)

\* the items are mapped with the seen set as the properties' calls left it
WithItems(h, n, type2, seen, pr) ==
  IF pr.out = TypeError THEN pr
  ELSE Finished(n, type2, pr, MappedItems(h, pr.arrays, n, type2, pr.seen))

WithProperties(h, arrs, n, type2, seen) ==
  WithItems(h, n, type2, seen, MappedProperties(h, arrs, n, type2, seen))

\* the try block, entered with the node added to seen
Convert(h, arrs, n, seen) ==
  WithProperties(h, FoldedArrays(arrs, n, ConvertedType(n)), n,
                 FoldedType(n, ConvertedType(n)), seen)

\* Finally without the delete
FinallyKept(s, r) == r

\* finally { seen.delete(schema) }: on return and on throw
Finally(s, r) == [r EXCEPT !.seen = @ \ {s.id}]

mapOpenApiSchemaToJsonSchema(h, arrs, s, seen) ==
  IF s.k # "node" THEN
    \* '$ref' in schema, with schema a primitive
    Result(TypeError, arrs, seen)
  ELSE IF h[s.id].ref THEN Result(GenericObject, arrs, seen)
  ELSE IF s.id \in seen THEN Result(GenericObject, arrs, seen)
  ELSE \* seen.add(schema); try { ... } finally { ... }
       Finally(s, Convert(h, arrs, h[s.id], seen \cup {s.id}))

-----------------------------------------------------------------------------
(* parser/extract-tools.ts: generateInputSchemaAndDetails                  *)

\* an array value, as Array.isArray sees it
Arr(v) == [k |-> "array", v |-> v]

\* a value in a boolean context: undefined, false and '' are falsy
Truthy(v) ==
  /\ v.k \notin {"undef", "null"}
  /\ v.k = "bool" => v.b
  /\ v.k = "str" => v.s # ""
  /\ v.k = "chars" => v.s # <<>>

\* a || b
OrElse(a, b) == IF Truthy(a) THEN a ELSE b

\* MapSet that leaves an existing key's value as it is
MapSetKeepFirst(entries, key, val) ==
  IF \E i \in DOMAIN entries : entries[i].key = key
  THEN entries
  ELSE Append(entries, [key |-> key, val |-> val])

\* Map.prototype.set, and assignment to a property of an object: an existing
\* key keeps its position and gets the new value, a new key is appended
MapSet(entries, key, val) ==
  IF \E i \in DOMAIN entries : entries[i].key = key
  THEN [i \in DOMAIN entries |->
          IF entries[i].key = key THEN Entry(key, val) ELSE entries[i]]
  ELSE Append(entries, Entry(key, val))

\* params.forEach((param) => { if (param.name) parameterMap.set(param.name, param) })
RECURSIVE SetAll(_, _, _)
SetAll(entries, params, i) ==
  IF i > Len(params) THEN entries
  ELSE SetAll(IF params[i].name # "" THEN MapSet(entries, params[i].name, params[i])
              ELSE entries,
              params, i + 1)

\* Array.isArray(x.parameters) ? x.parameters : []
ParametersOf(x) == IF x.parameters.k = "array" THEN x.parameters.v ELSE <<>>

\* Array.from(parameterMap.values())
MergeParameters(pathParameters, operationParameters) ==
  LET parameterMap == SetAll(SetAll(<<>>, pathParameters, 1), operationParameters, 1)
  IN  [i \in DOMAIN parameterMap |-> parameterMap[i].val]

\* ParamRequired without the test of the flag
ParamRequiredAlways(required, param) == Append(required, param.name)

\* if (param.required) required.push(param.name)
ParamRequired(required, param) ==
  IF param.required THEN Append(required, param.name) ELSE required

\* if (opRequestBody.required) required.push('requestBody')
BodyRequired(required, opRequestBody) ==
  IF opRequestBody.required THEN Append(required, "requestBody") ELSE required

WithDescription(sch, d) == [sch EXCEPT !.description = d]

JsonBodyDescription == Str("The JSON request body.")
OtherBodyDescription(contentType) ==
  Str("Request body (content type: " \o contentType \o ")")

\* BodyDescription with the schema's description taken first
BodyDescriptionSchemaFirst(bodyDescription, schemaDescription) ==
  OrElse(schemaDescription, OrElse(bodyDescription, JsonBodyDescription))

\* opRequestBody.description || bodySchema.description || 'The JSON request body.'
BodyDescription(bodyDescription, schemaDescription) ==
  OrElse(bodyDescription, OrElse(schemaDescription, JsonBodyDescription))

\* paramSchema.description = param.description || paramSchema.description
Described(paramSchema, description) ==
  IF paramSchema.k = "schema"
  THEN WithDescription(paramSchema, OrElse(description, paramSchema.description))
  ELSE paramSchema

\* properties[param.name] = paramSchema; if (param.required) ...
AddParameter(acc, param, r) ==
  IF r.out = TypeError THEN [acc EXCEPT !.thrown = TRUE, !.arrays = r.arrays]
  ELSE [acc EXCEPT !.properties = MapSet(@, param.name, Described(r.out, param.description)),
                   !.required   = ParamRequired(@, param),
                   !.arrays     = r.arrays]

\* allParameters.forEach(...): acc is the function's state, [properties,
\* required, requestBodyContentType, arrays, thrown]
RECURSIVE AddParameters(_, _, _, _)
AddParameters(h, params, i, acc) ==
  IF i > Len(params) \/ acc.thrown THEN acc
  ELSE IF params[i].name = "" \/ ~Truthy(params[i].schema)
  THEN AddParameters(h, params, i + 1, acc)
  ELSE AddParameters(h, params, i + 1,
         AddParameter(acc, params[i],
           mapOpenApiSchemaToJsonSchema(h, acc.arrays, params[i].schema, {})))

\* Object.entries(opRequestBody.content)
ContentEntries(opRequestBody) ==
  IF opRequestBody.content.k = "map" THEN opRequestBody.content.entries ELSE <<>>

\* opRequestBody.content?.['application/json']?.schema
JsonSchemaOf(content) ==
  IF \E i \in DOMAIN content : content[i].key = "application/json"
  THEN content[CHOOSE i \in DOMAIN content : content[i].key = "application/json"].val.schema
  ELSE Undef

\* bodySchema.description = ...
DescribedBody(bodySchema, description) ==
  IF bodySchema.k = "schema"
  THEN WithDescription(bodySchema, BodyDescription(description, bodySchema.description))
  ELSE bodySchema

\* if (jsonContent?.schema) { ... }
AddJsonBody(acc, opRequestBody, r) ==
  IF r.out = TypeError THEN [acc EXCEPT !.thrown = TRUE, !.arrays = r.arrays]
  ELSE [acc EXCEPT
          !.properties = MapSet(@, "requestBody",
                                DescribedBody(r.out, opRequestBody.description)),
          !.required   = BodyRequired(@, opRequestBody),
          !.arrays     = r.arrays,
          !.requestBodyContentType = Str("application/json")]

\* AddOtherBody without the push to required
AddOtherBodyNotRequired(acc, opRequestBody, contentType) ==
  [acc EXCEPT
     !.properties = MapSet(@, "requestBody",
                      Schema(TStr("string"), Undef, Undef,
                             OrElse(opRequestBody.description,
                                    OtherBodyDescription(contentType)),
                             {})),
     !.requestBodyContentType = Str(contentType)]

\* else if (firstContent) { ... }
AddOtherBody(acc, opRequestBody, contentType) ==
  [acc EXCEPT
     !.properties = MapSet(@, "requestBody",
                      Schema(TStr("string"), Undef, Undef,
                             OrElse(opRequestBody.description,
                                    OtherBodyDescription(contentType)),
                             {})),
     !.required   = BodyRequired(@, opRequestBody),
     !.requestBodyContentType = Str(contentType)]

AddBody(h, opRequestBody, content, acc) ==
  IF Truthy(JsonSchemaOf(content))
  THEN AddJsonBody(acc, opRequestBody,
         mapOpenApiSchemaToJsonSchema(h, acc.arrays, JsonSchemaOf(content), {}))
  ELSE IF content # <<>> THEN AddOtherBody(acc, opRequestBody, content[1].key)
  ELSE acc

\* if (operation.requestBody) { ... }
AddRequestBody(h, op, acc) ==
  IF acc.thrown \/ ~Truthy(op.requestBody) THEN acc
  ELSE AddBody(h, op.requestBody, ContentEntries(op.requestBody), acc)

\* const inputSchema = { type: 'object', properties, ...(required.length > 0 && { required }) }
\* return { inputSchema, parameters: allParameters, requestBodyContentType }
Details(allParameters, acc) ==
  IF acc.thrown THEN Returned(TypeError, acc.arrays)
  ELSE Returned([k |-> "details",
                 inputSchema |->
                   [type |-> "object",
                    properties |-> Map(acc.properties),
                    required |-> IF Len(acc.required) > 0
                                 THEN Arr(acc.required) ELSE Undef],
                 parameters |-> allParameters,
                 requestBodyContentType |-> acc.requestBodyContentType],
                acc.arrays)

DetailsOf(h, arrs, op, allParameters) ==
  Details(allParameters,
          AddRequestBody(h, op,
            AddParameters(h, allParameters, 1,
              [properties |-> <<>>, required |-> <<>>,
               requestBodyContentType |-> Undef,
               arrays |-> arrs, thrown |-> FALSE])))

\* [out, arrays]: the returned { inputSchema, parameters, requestBodyContentType }
\* (or the error thrown) and the array objects as the call leaves them
generateInputSchemaAndDetails(h, arrs, op, item) ==
  DetailsOf(h, arrs, op, MergeParameters(ParametersOf(item), ParametersOf(op)))

-----------------------------------------------------------------------------
(* parser/extract-tools.ts: extractToolsFromApi                            *)
(* Operation ids, tool names, methods and paths are sequences of           *)
(* characters.                                                             *)

\* Object.values(OpenAPIV3.HttpMethods)
HttpMethods ==
  << <<"g", "e", "t">>, <<"p", "u", "t">>, <<"p", "o", "s", "t">>,
     <<"d", "e", "l", "e", "t", "e">>, <<"o", "p", "t", "i", "o", "n", "s">>,
     <<"h", "e", "a", "d">>, <<"p", "a", "t", "c", "h">>, <<"t", "r", "a", "c", "e">> >>

ToUpperChar(c) ==
  IF \E i \in DOMAIN LowerCase : LowerCase[i] = c
  THEN UpperCase[CHOOSE i \in DOMAIN LowerCase : LowerCase[i] = c]
  ELSE c

ToUpperCase(s) == [i \in DOMAIN s |-> ToUpperChar(s[i])]

\* generateOperationId(method, path) of utils/code-gen.ts: the method followed
\* by the path's segments, placeholder braces stripped
RECURSIVE StripChars(_, _)
StripChars(s, drop) ==
  IF s = <<>> THEN <<>>
  ELSE IF Head(s) \in drop THEN StripChars(Tail(s), drop)
  ELSE <<Head(s)>> \o StripChars(Tail(s), drop)

generateOperationId(method, path) == method \o StripChars(path, {"/", "{", "}"})

\* /[^a-z0-9_-]/gi
NameChars == Range(LowerCase) \cup Range(UpperCase) \cup Range(Digits) \cup {"_", "-"}

\* s.replace(/\./g, '_')
ReplaceDots(s) == [i \in DOMAIN s |-> IF s[i] = "." THEN "_" ELSE s[i]]

\* s.replace(/[^a-z0-9_-]/gi, '_')
ReplaceOthers(s) == [i \in DOMAIN s |-> IF s[i] \in NameChars THEN s[i] ELSE "_"]

Sanitize(s) == ReplaceOthers(ReplaceDots(s))

\* the decimal digits of a number, as in a template literal
RECURSIVE NumberToString(_)
NumberToString(n) ==
  IF n < 10 THEN <<Digits[n + 1]>>
  ELSE NumberToString(n \div 10) \o <<Digits[(n % 10) + 1]>>

\* NextFreeName with an if in place of the while
NextFreeNameOnce(finalToolName, baseName, counter, used) ==
  IF finalToolName \in used
  THEN baseName \o <<"_">> \o NumberToString(counter)
  ELSE finalToolName

\* let finalToolName = baseName; let counter = 1;
\* while (usedNames.has(finalToolName)) finalToolName = `${baseName}_${counter++}`
RECURSIVE NextFreeName(_, _, _, _)
NextFreeName(finalToolName, baseName, counter, used) ==
  IF finalToolName \in used
  THEN NextFreeName(baseName \o <<"_">> \o NumberToString(counter),
                    baseName, counter + 1, used)
  ELSE finalToolName

\* UniqueToolName with the counter started at 2
UniqueToolNameFromTwo(baseName, used) == NextFreeName(baseName, baseName, 2, used)

\* let finalToolName = baseName; let counter = 1; while (...) ...
UniqueToolName(baseName, used) == NextFreeName(baseName, baseName, 1, used)

\* operation.description || operation.summary || `Executes ${method.toUpperCase()} ${path}`
DefaultDescription(method, path) ==
  [k |-> "template", parts |-> <<"Executes ", ToUpperCase(method), " ", path>>]

\* the path item of the p-th entry of api.paths, its m-th method's operation
PathItemAt(doc, p) == doc.paths.v[p].item
OperationAt(doc, p, m) == PathItemAt(doc, p).ops[m]

\* the (path, method) pairs the two loops reach the body's filter with:
\* if (!api.paths) return tools; if (!pathItem) continue; if (!operation) continue
Declared(doc) ==
  IF doc.paths.k # "array" THEN {}
  ELSE {pm \in (DOMAIN doc.paths.v) \X (DOMAIN HttpMethods) :
          /\ PathItemAt(doc, pm[1]) # Undef
          /\ OperationAt(doc, pm[1], pm[2]) # Undef}

Before(a, b) == a[1] < b[1] \/ (a[1] = b[1] /\ a[2] < b[2])

\* the pairs still to visit after the pair <<p, m>>
Remaining(doc, p, m) == {pm \in Declared(doc) : Before(<<p, m>>, pm)}

NextPair(doc, p, m) ==
  CHOOSE pm \in Remaining(doc, p, m) :
    \A other \in Remaining(doc, p, m) : other = pm \/ Before(pm, other)

\* a ?? b falls through on undefined and null
Nullish(v) == v \in {Undef, Null}

\* the catch clause raises in its turn: it evaluates
\* operation['x-mcp'] ?? pathItem['x-mcp'] ?? api['x-mcp'] outside any try
CatchRaises(doc, item, op) ==
  \/ op.xmcp = Raises
  \/ /\ Nullish(op.xmcp)
     /\ \/ item.xmcp = Raises
        \/ /\ Nullish(item.xmcp)
           /\ doc.xmcp = Raises

\* the error leaves the catch clause and extractToolsFromApi with it
FilterAborts(doc, item, op) ==
  /\ shouldIncludeRaises(doc.xmcp, item.xmcp, op.xmcp)
  /\ CatchRaises(doc, item, op)

\* the try/catch around shouldIncludeOperationForMcp, when no error leaves it:
\* the helper's answer, or after a caught error  if (!defaultInclude) continue
FilterPasses(doc, item, op, dflt) ==
  IF shouldIncludeRaises(doc.xmcp, item.xmcp, op.xmcp)
  THEN ~CatchRaises(doc, item, op) /\ dflt
  ELSE shouldIncludeOperationForMcp(doc.xmcp, item.xmcp, op.xmcp, dflt)

\* operation.operationId || generateOperationId(method, path)
RawBaseName(op, method, path) ==
  IF Truthy(op.operationId) THEN op.operationId.s
  ELSE generateOperationId(method, path)

\* api.security || []
GlobalSecurity(doc) == OrElse(doc.security, Arr(<<>>))

\* SecurityRequirements with an empty array taken for a missing one
SecurityRequirementsNonEmpty(doc, op) ==
  IF op.security.k = "array" /\ op.security.v # <<>> THEN op.security
  ELSE GlobalSecurity(doc)

\* operation.security === null ? globalSecurity : operation.security || globalSecurity
SecurityRequirements(doc, op) ==
  IF op.security = Null THEN GlobalSecurity(doc)
  ELSE OrElse(op.security, GlobalSecurity(doc))

\* tools.push({ ... })
ToolFor(doc, p, m, used, det) ==
  LET op       == OperationAt(doc, p, m)
      method   == HttpMethods[m]
      path     == doc.paths.v[p].path
      baseName == Sanitize(RawBaseName(op, method, path))
  IN  [name        |-> UniqueToolName(baseName, used),
       description |-> OrElse(op.description,
                              OrElse(op.summary, DefaultDescription(method, path))),
       inputSchema |-> det.inputSchema,
       method      |-> method,
       pathTemplate |-> path,
       parameters  |-> det.parameters,
       executionParameters |->
         [i \in DOMAIN det.parameters |->
            [name |-> det.parameters[i].name, in |-> det.parameters[i].in]],
       requestBodyContentType |-> det.requestBodyContentType,
       securityRequirements |-> SecurityRequirements(doc, op),
       operationId |-> baseName]

-----------------------------------------------------------------------------
(* Values every specification starts the other calls' variables with *)

NoHeap   == <<>>
NoArrays == <<>>

FilterIdle ==
  /\ opRaw = Undef /\ pathRaw = Undef /\ rootRaw = Undef
  /\ decision = Pending /\ warnings = <<>>

ExtractIdle ==
  /\ api = Undef /\ pathIdx = 0 /\ methodIdx = 0
  /\ usedNames = {} /\ tools = <<>> /\ pc = "idle"

DetailIdle ==
  /\ operation = Undef /\ pathItem = Undef /\ details = Pending

MapIdle ==
  /\ heap = NoHeap /\ arrays = NoArrays /\ schema = Undef /\ mapped = Pending
  /\ visited = {}

-----------------------------------------------------------------------------
(* One top-level call mapOpenApiSchemaToJsonSchema(schema) *)

MaxNodes == 2

NodeIds == 1 .. MaxNodes

\* a { $ref: ... } object
RefNode ==
  [ref |-> TRUE, type |-> Undef, nullable |-> FALSE, props |-> Undef,
   items |-> Undef, description |-> Undef, extras |-> {}]

PropertyMaps ==
  {Undef, Map(<<>>)}
    \cup {Map(<<Entry("p", v)>>) : v \in {Bool(TRUE)} \cup {Node(i) : i \in NodeIds}}
    \cup {Map(<<Entry("p", Node(i)), Entry("q", Node(i))>>) : i \in NodeIds \ {1}}

SchemaNodes ==
  {RefNode} \cup
  {[ref |-> FALSE, type |-> t, nullable |-> nl, props |-> p, items |-> it,
    description |-> Undef, extras |-> e] :
      t  \in {Undef, TStr("object"), TStr("array"), TStr("integer"), TArr(1)},
      nl \in BOOLEAN,
      p  \in PropertyMaps,
      it \in {Undef} \cup {Node(i) : i \in NodeIds},
      e  \in {{}, {"example", "format"}}}

TypeArrays == {<<"string">>, <<"string", "null">>}

MapInit ==
  /\ \/ /\ schema = Node(1)
        /\ heap \in [NodeIds -> SchemaNodes]
        /\ arrays \in [{1} -> TypeArrays]
     \/ /\ schema \in {Bool(TRUE), Bool(FALSE)}
        /\ heap = NoHeap
        /\ arrays = NoArrays
  /\ mapped = Pending
  /\ visited = {}
  /\ FilterIdle /\ defaultInclude = TRUE /\ ExtractIdle /\ DetailIdle

\* the call, entered with the fresh WeakSet of the default parameter
MapCall ==
  /\ mapped = Pending
  /\ \E r \in {mapOpenApiSchemaToJsonSchema(heap, arrays, schema, visited)} :
       /\ mapped' = r.out
       /\ arrays' = r.arrays
       /\ visited' = r.seen
  /\ UNCHANGED <<heap, schema, filterVars, defaultInclude, extractVars, detailVars>>

MapNext == MapCall

SpecMap == MapInit /\ [][MapNext]_vars

-----------------------------------------------------------------------------
(* One top-level call mapOpenApiSchemaToJsonSchema(schema) on a graph of   *)
(* object and array nodes that share and repeat nodes                      *)

\* properties p and q, each any node of the graph
SharedPropertyMaps ==
  {Undef}
    \cup {Map(<<Entry("p", Node(i))>>) : i \in NodeIds}
    \cup {Map(<<Entry("p", Node(i)), Entry("q", Node(j))>>) : i \in NodeIds, j \in NodeIds}

SharedNodes ==
  {RefNode}
    \cup {[ref |-> FALSE, type |-> TStr("object"), nullable |-> nl, props |-> p,
           items |-> Undef, description |-> Undef, extras |-> {}] :
            nl \in BOOLEAN, p \in SharedPropertyMaps}
    \cup {[ref |-> FALSE, type |-> TStr("array"), nullable |-> FALSE, props |-> Undef,
           items |-> it, description |-> Undef, extras |-> {}] :
            it \in {Undef} \cup {Node(i) : i \in NodeIds}}

SharedInit ==
  /\ \/ /\ schema = Node(1)
        /\ heap \in [NodeIds -> SharedNodes]
     \/ /\ schema \in {Bool(TRUE), Bool(FALSE)}
        /\ heap = NoHeap
  /\ arrays = NoArrays
  /\ mapped = Pending
  /\ visited = {}
  /\ FilterIdle /\ defaultInclude = TRUE /\ ExtractIdle /\ DetailIdle

SpecShared == SharedInit /\ [][MapNext]_vars

-----------------------------------------------------------------------------
(* One call generateInputSchemaAndDetails(operation, pathItem) *)

MaxParams == 2

\* the schema objects the parameters and request bodies refer to
DetailHeap ==
  << [ref |-> FALSE, type |-> TStr("integer"), nullable |-> FALSE, props |-> Undef,
      items |-> Undef, description |-> Str("schema description"), extras |-> {}],
     [ref |-> FALSE, type |-> TStr("string"), nullable |-> TRUE, props |-> Undef,
      items |-> Undef, description |-> Undef, extras |-> {"example"}],
     RefNode >>

Param(name, required, sch, description) ==
  [name |-> name, in |-> "query", required |-> required, schema |-> sch,
   description |-> description]

Params ==
  {Param("a", TRUE, Node(1), Undef),
   Param("a", FALSE, Undef, Undef),
   Param("a", TRUE, Bool(TRUE), Undef),
   Param("a", TRUE, Bool(FALSE), Undef),
   Param("b", FALSE, Node(1), Undef),
   Param("b", TRUE, Undef, Undef),
   Param("b", FALSE, Node(2), Str("parameter description")),
   Param("", TRUE, Node(1), Undef)}

SeqsUpTo(S, n) == UNION {[1 .. len -> S] : len \in 0 .. n}

ParameterLists == {Undef} \cup {Arr(ps) : ps \in SeqsUpTo(Params, MaxParams)}

Media(sch) == [schema |-> sch]

Contents ==
  {Undef, Map(<<>>)}
    \cup {Map(<<Entry("application/json", Media(sc))>>) :
            sc \in {Undef, Node(1), Node(2), Node(3), Bool(TRUE), Bool(FALSE)}}
    \cup {Map(<<Entry("text/plain", Media(Undef))>>),
          Map(<<Entry("text/plain", Media(Node(1))),
                Entry("application/json", Media(Node(2)))>>),
          Map(<<Entry("text/plain", Media(Node(1))),
                Entry("application/json", Media(Undef))>>)}

RequestBodies ==
  {[k |-> "requestBody", description |-> d, required |-> r, content |-> c] :
     d \in {Undef, Str(""), Str("body description")}, r \in BOOLEAN, c \in Contents}

Operation(id, xmcp, parameters, requestBody) ==
  [k |-> "operation", operationId |-> id, xmcp |-> xmcp, description |-> Undef,
   summary |-> Undef, parameters |-> parameters, requestBody |-> requestBody,
   security |-> Undef]

PathItem(xmcp, parameters, ops) ==
  [k |-> "pathItem", xmcp |-> xmcp, parameters |-> parameters, ops |-> ops]

NoOps == [m \in DOMAIN HttpMethods |-> Undef]

DetailInit ==
  /\ \/ /\ operation \in {Operation(Undef, Undef, ps, Undef) : ps \in ParameterLists}
        /\ pathItem \in {PathItem(Undef, ps, NoOps) : ps \in ParameterLists}
     \/ /\ operation \in {Operation(Undef, Undef, Undef, b) : b \in RequestBodies}
        /\ pathItem \in {PathItem(Undef, ps, NoOps) :
                           ps \in {Undef, Arr(<<Param("a", TRUE, Node(1), Undef)>>)}}
  /\ details = Pending
  /\ heap = DetailHeap /\ arrays = NoArrays /\ schema = Undef /\ mapped = Pending
  /\ visited = {}
  /\ FilterIdle /\ defaultInclude = TRUE /\ ExtractIdle

DetailCall ==
  /\ details = Pending
  /\ \E r \in {generateInputSchemaAndDetails(heap, arrays, operation, pathItem)} :
       /\ details' = r.out
       /\ arrays' = r.arrays
  /\ UNCHANGED <<operation, pathItem, heap, schema, mapped, visited,
                 filterVars, defaultInclude, extractVars>>

DetailNext == DetailCall

SpecDetail == DetailInit /\ [][DetailNext]_vars

-----------------------------------------------------------------------------
(* One call shouldIncludeOperationForMcp(api, pathItem, operation, defaultInclude) *)

RawValues ==
  {Undef, Null, Obj, Num(0), Num(1), Bool(TRUE), Bool(FALSE),
   Chars(<<"t", "r", "u", "e">>), Chars(<<"T", "r", "u", "e">>),
   Chars(<<"n", "o">>), Chars(<<"O", "F", "F">>), Chars(<<"1">>),
   Chars(<<" ", "o", "n", " ">>), Chars(<<"m", "a", "y", "b", "e">>), Chars(<<>>)}

FilterInit ==
  /\ opRaw \in RawValues /\ pathRaw \in RawValues /\ rootRaw \in RawValues
  /\ defaultInclude \in BOOLEAN
  /\ decision = Pending /\ warnings = <<>>
  /\ ExtractIdle /\ DetailIdle /\ MapIdle

FilterCall ==
  /\ decision = Pending
  /\ \E r \in {shouldIncludeRun(rootRaw, pathRaw, opRaw, defaultInclude)} :
       /\ decision' = Bool(r.ret)
       /\ warnings' = r.warn
  /\ UNCHANGED <<opRaw, pathRaw, rootRaw, defaultInclude,
                 extractVars, detailVars, mapVars>>

FilterNext == FilterCall

SpecFilter == FilterInit /\ [][FilterNext]_vars

-----------------------------------------------------------------------------
(* One run extractToolsFromApi(api, defaultInclude) *)

MaxPaths == 2

\* the keys of api.paths, all different
PathName(i) == <<"/", "p">> \o NumberToString(i) \o <<"/", "{", "i", "d", "}">>

OperationIds ==
  {Undef, Chars(<<"a">>), Chars(<<"a", "_", "1">>), Chars(<<"a", ".", "b">>)}

Operations ==
  {Operation(id, Undef, Undef, Undef) : id \in OperationIds}
    \cup {Operation(Chars(<<"a">>), Bool(FALSE), Undef, Undef)}

\* documents declare operations under get and post
OperationMap(get, post) ==
  [m \in DOMAIN HttpMethods |-> IF m = 1 THEN get ELSE IF m = 3 THEN post ELSE Undef]

PathItems ==
  {PathItem(Undef, Undef, OperationMap(g, po)) :
     g \in Operations \cup {Undef},
     po \in {Undef} \cup {Operation(id, Undef, Undef, Undef) :
                             id \in {Chars(<<"a">>), Chars(<<"a", "_", "1">>)}}}
    \cup {PathItem(Bool(FALSE), Undef, OperationMap(g, Operation(Chars(<<>>), Undef, Undef, Undef))) :
            g \in {Operation(Chars(<<"a">>), x, Undef, Undef) : x \in {Undef, Chars(<<"y", "e", "s">>)}}}

Document(xmcp, security, paths) ==
  [k |-> "document", xmcp |-> xmcp, security |-> security, paths |-> paths]

\* the security arrays an operation or a document declares (requirement
\* objects by name), null, or nothing
OperationSecurities == {Undef, Null, Arr(<<>>), Arr(<<"own">>)}
GlobalSecurities == {Undef, Arr(<<>>), Arr(<<"global">>)}

WithSecurity(op, security) == [op EXCEPT !.security = security]

\* documents whose paths declare one get operation each, with a security field
SecuredDocuments ==
  {Document(Undef, g,
            Arr([i \in 1 .. MaxPaths |->
                   [path |-> PathName(i),
                    item |-> PathItem(Undef, Undef,
                               OperationMap(WithSecurity(Operation(Undef, Undef, Undef, Undef),
                                                         secs[i]),
                                            Undef))]])) :
     g \in GlobalSecurities, secs \in [1 .. MaxPaths -> OperationSecurities]}

\* documents with x-mcp properties whose read raises: one get operation per path
RaisingDocuments ==
  {Document(root, Undef,
            Arr([i \in 1 .. MaxPaths |->
                   [path |-> PathName(i),
                    item |-> PathItem(at[i][1], Undef,
                               OperationMap(Operation(Undef, at[i][2], Undef, Undef),
                                            Undef))]])) :
     root \in {Undef, Raises, Bool(FALSE)},
     at \in [1 .. MaxPaths ->
               {Undef, Raises} \X
               {Undef, Raises, Bool(TRUE), Chars(<<"m", "a", "y", "b", "e">>)}]}

Documents ==
  SecuredDocuments \cup RaisingDocuments \cup
  {Document(Undef, Undef, Undef),
   Document(Undef, Undef,
            Arr([i \in 1 .. MaxPaths |-> [path |-> PathName(i), item |-> Undef]]))}
    \cup {Document(Undef, Undef,
                   Arr([i \in 1 .. MaxPaths |-> [path |-> PathName(i), item |-> items[i]]])) :
            items \in [1 .. MaxPaths -> PathItems]}

ExtractInit ==
  /\ api \in Documents
  /\ defaultInclude \in BOOLEAN
  /\ pathIdx = 0 /\ methodIdx = 0
  /\ usedNames = {} /\ tools = <<>> /\ pc = "run"
  /\ FilterIdle /\ DetailIdle
  /\ heap = NoHeap /\ arrays = NoArrays /\ schema = Undef /\ mapped = Pending
  /\ visited = {}

\* the loop body from "Generate a unique name" on, for the operation at pm,
\* given what generateInputSchemaAndDetails returned or threw
BuildTool(pm, det) ==
  IF det.out = TypeError
  THEN /\ pc' = "threw"
       /\ usedNames' = usedNames \cup {ToolFor(api, pm[1], pm[2], usedNames, Undef).name}
       /\ arrays' = det.arrays
       /\ UNCHANGED tools
  ELSE \E tool \in {ToolFor(api, pm[1], pm[2], usedNames, det.out)} :
         /\ usedNames' = usedNames \cup {tool.name}
         /\ tools' = Append(tools, tool)
         /\ arrays' = det.arrays
         /\ UNCHANGED pc

\* one iteration of the loop body, for the next declared operation
VisitOperation ==
  /\ pc = "run"
  /\ Remaining(api, pathIdx, methodIdx) # {}
  /\ \E pm \in {NextPair(api, pathIdx, methodIdx)} :
       /\ pathIdx' = pm[1]
       /\ methodIdx' = pm[2]
       /\ IF FilterAborts(api, PathItemAt(api, pm[1]), OperationAt(api, pm[1], pm[2]))
          THEN pc' = "threw" /\ UNCHANGED <<usedNames, tools, arrays>>
          ELSE IF \/ ~FilterPasses(api, PathItemAt(api, pm[1]),
                                   OperationAt(api, pm[1], pm[2]), defaultInclude)
                  \/ RawBaseName(OperationAt(api, pm[1], pm[2]), HttpMethods[pm[2]],
                                 api.paths.v[pm[1]].path) = <<>>
               THEN UNCHANGED <<usedNames, tools, pc, arrays>>
               ELSE BuildTool(pm, generateInputSchemaAndDetails(heap, arrays,
                                    OperationAt(api, pm[1], pm[2]), PathItemAt(api, pm[1])))
  /\ UNCHANGED <<api, defaultInclude, heap, schema, mapped, visited, filterVars, detailVars>>

\* return tools
ReturnTools ==
  /\ pc = "run"
  /\ Remaining(api, pathIdx, methodIdx) = {}
  /\ pc' = "done"
  /\ UNCHANGED <<api, pathIdx, methodIdx, usedNames, tools, defaultInclude,
                 filterVars, detailVars, mapVars>>

ExtractNext == VisitOperation \/ ReturnTools

SpecExtract == ExtractInit /\ [][ExtractNext]_vars

-----------------------------------------------------------------------------
(* Properties of shouldIncludeOperationForMcp (SpecFilter) *)

\* a raw value is well-formed when it normalizes to a boolean
WellFormed(raw) == normalizeBoolean(raw) # Undef

\* the decision by precedence over <<operation, path, root>>
ByPrecedence(scopes, dflt) ==
  IF \E i \in DOMAIN scopes : WellFormed(scopes[i])
  THEN normalizeBoolean(
         scopes[CHOOSE i \in DOMAIN scopes :
                  /\ WellFormed(scopes[i])
                  /\ \A j \in 1 .. (i - 1) : ~WellFormed(scopes[j])]).b
  ELSE dflt

Absent(scopes, i) == [scopes EXCEPT ![i] = Undef]

ListedBoolean(raw) ==
  IF raw.k = "bool" THEN raw
  ELSE IF raw.k = "chars" /\ ToLowerCase(raw.s) \in TrueWords THEN Bool(TRUE)
  ELSE IF raw.k = "chars" /\ ToLowerCase(raw.s) \in FalseWords THEN Bool(FALSE)
  ELSE Undef

\* C12: a raw x-mcp value normalizes to a boolean exactly when it is a boolean
\* or a string equal, ignoring letter case only, to one of true, 1, yes, on
\* (true) or false, 0, no, off (false); every other raw value normalizes to
\* undefined, so that at operation scope it is warned about and does not decide.
C12_WellFormedExactlyListed ==
  decision # Pending =>
    /\ \A raw \in {opRaw, pathRaw, rootRaw} : normalizeBoolean(raw) = ListedBoolean(raw)
    /\ ListedBoolean(opRaw) # Undef => decision = ListedBoolean(opRaw) /\ warnings = <<>>
    /\ (opRaw # Undef /\ ListedBoolean(opRaw) = Undef) =>
         /\ warnings # <<>>
         /\ warnings[1] = [scope |-> "operation", raw |-> opRaw]

-----------------------------------------------------------------------------
(* Properties of extractToolsFromApi (SpecExtract) *)

\* C2: once extractToolsFromApi has returned, no two tools have the same name.
C2_ToolNamesUnique ==
  pc = "done" =>
    \A i, j \in DOMAIN tools : i # j => tools[i].name # tools[j].name

\* three operations whose names collide with each other and with a declared
\* id that already ends in _1
C2_Witness ==
  /\ pc = "done"
  /\ \E i, j, l \in DOMAIN tools :
       /\ tools[i].name = <<"a">>
       /\ tools[j].name = <<"a", "_", "1">>
       /\ tools[l].name = <<"a", "_", "2">>

\* the operation a tool was built from
SourceOperation(tool) ==
  LET p == CHOOSE q \in DOMAIN api.paths.v : api.paths.v[q].path = tool.pathTemplate
      m == CHOOSE n \in DOMAIN HttpMethods : HttpMethods[n] = tool.method
  IN  OperationAt(api, p, m)

\* C6: every tool's operationId is the operation's identifier before
\* sanitization: the declared operationId when present and non-empty, else the
\* identifier synthesized from method and path.
C6_OperationIdIsOriginal ==
  \A i \in DOMAIN tools :
    tools[i].operationId =
      RawBaseName(SourceOperation(tools[i]), tools[i].method, tools[i].pathTemplate)

\* base_k
Suffixed(base, k) == base \o <<"_">> \o NumberToString(k)

\* base when it is not used, else base_k for the smallest k >= 1 not used
FirstFreeName(base, used) ==
  IF base \notin used THEN base
  ELSE Suffixed(base,
         CHOOSE k \in 1 .. (Cardinality(used) + 1) :
           /\ Suffixed(base, k) \notin used
           /\ \A j \in 1 .. (k - 1) : Suffixed(base, j) \in used)

\* the operation at <<p, m>> passes the filter and has a base name
Included(p, m) ==
  /\ FilterPasses(api, PathItemAt(api, p), OperationAt(api, p, m), defaultInclude)
  /\ RawBaseName(OperationAt(api, p, m), HttpMethods[m], api.paths.v[p].path) # <<>>

SanitizedBaseName(p, m) ==
  Sanitize(RawBaseName(OperationAt(api, p, m), HttpMethods[m], api.paths.v[p].path))

\* C15: in processing order, each included operation adds exactly one tool,
\* after the tools already there; its name is the sanitized base name when
\* that is not yet used and else base_k for the smallest k >= 1 such that
\* base_k is not yet used, and the name is recorded as used; an operation
\* that is not included adds nothing.
C15_FirstFreeNameInOrder ==
  [][(pathIdx' # pathIdx \/ methodIdx' # methodIdx) =>
       IF Included(pathIdx', methodIdx')
       THEN /\ Len(tools') = Len(tools) + 1
            /\ SubSeq(tools', 1, Len(tools)) = tools
            /\ tools'[Len(tools')].method = HttpMethods[methodIdx']
            /\ tools'[Len(tools')].pathTemplate = api.paths.v[pathIdx'].path
            /\ tools'[Len(tools')].name =
                 FirstFreeName(SanitizedBaseName(pathIdx', methodIdx'), usedNames)
            /\ usedNames' = usedNames \cup {tools'[Len(tools')].name}
       ELSE tools' = tools /\ usedNames' = usedNames]_vars

\* a, then a declared a_1, then a again, which is named a_2; every declared
\* operation has its tool
C15_Witness ==
  /\ pc = "done"
  /\ Len(tools) = Cardinality(Declared(api))
  /\ \E i, j, l \in DOMAIN tools :
       /\ i < j /\ j < l
       /\ tools[i].name = <<"a">>
       /\ tools[j].name = <<"a", "_", "1">> /\ tools[j].operationId = <<"a", "_", "1">>
       /\ tools[l].name = <<"a", "_", "2">> /\ tools[l].operationId = <<"a">>

\* C11: a tool's securityRequirements is the operation's own security array
\* whenever the operation declares one, the empty array included, and the
\* document's security array (the empty list when the document declares none)
\* exactly when the operation's security is absent or null.
C11_SecurityOwnElseGlobal ==
  \A i \in DOMAIN tools :
    LET own == SourceOperation(tools[i]).security IN
      /\ own.k = "array" => tools[i].securityRequirements = own
      /\ own \in {Undef, Null} =>
           tools[i].securityRequirements =
             (IF api.security.k = "array" THEN api.security ELSE Arr(<<>>))
      /\ own.k = "array" \/ own \in {Undef, Null}

\* an operation declaring the empty array under a document with a global
\* requirement, and one declaring null under the same document
C11_Witness ==
  /\ pc = "done"
  /\ api.security = Arr(<<"global">>)
  /\ \E i, j \in DOMAIN tools :
       /\ SourceOperation(tools[i]).security = Arr(<<>>)
       /\ tools[i].securityRequirements = Arr(<<>>)
       /\ SourceOperation(tools[j]).security = Null
       /\ tools[j].securityRequirements = Arr(<<"global">>)

\* the loop has been through the operation at pm
Processed(pm) == pathIdx > 0 /\ ~Before(<<pathIdx, methodIdx>>, pm)

\* tools has a tool of the operation at pm
HasTool(pm) ==
  \E i \in DOMAIN tools :
    /\ tools[i].method = HttpMethods[pm[2]]
    /\ tools[i].pathTemplate = api.paths.v[pm[1]].path

\* evaluating the filter for the operation at pm raises
FilterRaisedAt(pm) ==
  shouldIncludeRaises(api.xmcp, PathItemAt(api, pm[1]).xmcp, OperationAt(api, pm[1], pm[2]).xmcp)

\* C16: when evaluating the inclusion filter for an operation raises, the
\* extraction does not abort there and the operation has a tool exactly when
\* defaultInclude is true, whatever the x-mcp values; every other operation
\* has a tool exactly when the filter says so.
C16_FilterErrorResolvedByDefault ==
  \A pm \in Declared(api) :
    Processed(pm) =>
      IF FilterRaisedAt(pm)
      THEN /\ ~(pc = "threw" /\ pm = <<pathIdx, methodIdx>>)
           /\ HasTool(pm) <=> defaultInclude
      ELSE HasTool(pm) <=>
             shouldIncludeOperationForMcp(api.xmcp, PathItemAt(api, pm[1]).xmcp,
                                          OperationAt(api, pm[1], pm[2]).xmcp,
                                          defaultInclude)

-----------------------------------------------------------------------------
(* Properties of mapOpenApiSchemaToJsonSchema (SpecMap) *)

\* the node ids a value holds in its properties and items
RefsOfEntries(entries) ==
  {entries[i].val.id : i \in {j \in DOMAIN entries : entries[j].val.k = "node"}}

ChildrenOf(n) ==
  (IF n.props.k = "map" THEN RefsOfEntries(n.props.entries) ELSE {})
    \cup (IF n.items.k = "node" THEN {n.items.id} ELSE {})

\* the input nodes reachable from the nodes S, S included
RECURSIVE ReachableFrom(_, _)
ReachableFrom(h, S) ==
  LET next == S \cup UNION {ChildrenOf(h[id]) : id \in S}
  IN  IF next = S THEN S ELSE ReachableFrom(h, next)

ReachesItself(h, id) == id \in ReachableFrom(h, ChildrenOf(h[id]))

\* the input nodes that a mapped value still holds (the shallow copy's
\* properties and items that were not replaced by mapped ones)
RECURSIVE InputNodesIn(_)
InputNodesIn(out) ==
  IF out.k = "node" THEN {out.id}
  ELSE IF out.k = "schema" THEN
    (IF out.props.k = "map"
     THEN UNION {InputNodesIn(out.props.entries[i].val) : i \in DOMAIN out.props.entries}
     ELSE {})
      \cup InputNodesIn(out.items)
  ELSE {}

\* no node of the result reaches itself
FiniteTree(h, out) ==
  \A id \in ReachableFrom(h, InputNodesIn(out)) : ~ReachesItself(h, id)

\* C3: on a schema graph in which some node reaches itself, the mapper
\* terminates with a finite tree: no node of the result reaches itself.
C3_CyclicInputGivesFiniteTree ==
  (/\ mapped # Pending
   /\ schema.k = "node"
   /\ \E id \in ReachableFrom(heap, {schema.id}) : ReachesItself(heap, id))
    => (mapped.k = "schema" /\ FiniteTree(heap, mapped))

\* C4: the mapper never mutates its input: the schema objects and the arrays
\* their type fields hold are the same after the call as before it.
C4_InputNeverMutated ==
  [][(mapped = Pending /\ mapped' # Pending) => (heap' = heap /\ arrays' = arrays)]_vars

\* C10: applied to a boolean schema, the mapper returns that boolean.
C10_BooleanPassesThrough ==
  (mapped # Pending /\ schema.k = "bool") => mapped = schema

\* the result's type is object, or the union of object and null
ObjectTyped(out) ==
  out.type = TStr("object") \/ out.type = TLit(<<"object", "null">>)

\* what the claim has in place of a property value of the node id
MappedProperty(h, arrs, id, val) ==
  IF val.k = "bool" THEN val
  ELSE mapOpenApiSchemaToJsonSchema(h, arrs, val, {id}).out

\* C13: when the mapped result is object-typed (the union of object and null
\* included) and has properties, every property value of the output is the
\* mapper's result for that property, boolean values unchanged.
C13_PropertiesMappedWhenObjectTyped ==
  (/\ mapped.k = "schema"
   /\ schema.k = "node"
   /\ ObjectTyped(mapped)
   /\ mapped.props.k = "map")
    => LET entries == heap[schema.id].props.entries IN
         /\ Len(mapped.props.entries) = Len(entries)
         /\ \A i \in DOMAIN entries :
              /\ mapped.props.entries[i].key = entries[i].key
              /\ mapped.props.entries[i].val =
                   MappedProperty(heap, arrays, schema.id, entries[i].val)

-----------------------------------------------------------------------------
(* Properties of the seen set of mapOpenApiSchemaToJsonSchema (SpecShared) *)

\* every call on the recursion tree below s that is entered with the nodes of
\* its path as the seen set leaves the set as it found it; the first call of
\* a node's body is entered with the path, each later one with the set the
\* call before it left, so every call is entered with exactly its path
RECURSIVE PathKept(_, _, _, _)
PathKept(h, arrs, s, path) ==
  /\ mapOpenApiSchemaToJsonSchema(h, arrs, s, path).seen = path
  /\ (s.k = "node" /\ s.id \notin path) =>
       \A c \in ChildrenOf(h[s.id]) : PathKept(h, arrs, Node(c), path \cup {s.id})

\* out, found where the mapper is called on s below the nodes of path, is the
\* generic object when s is on the path (or an unresolved reference) and else
\* has the type of s and, where the mapper descends, the properties or items
\* of s, each of them again as mapped below path and s
RECURSIVE MappedAtEachOccurrence(_, _, _, _)
MappedAtEachOccurrence(h, s, out, path) ==
  IF s.k # "node" THEN out = s
  ELSE IF h[s.id].ref \/ s.id \in path THEN out = GenericObject
  ELSE
    /\ out.k = "schema"
    /\ out.type = FoldedType(h[s.id], ConvertedType(h[s.id]))
    /\ (out.type = TStr("object") /\ h[s.id].props.k = "map") =>
         /\ out.props.k = "map"
         /\ Len(out.props.entries) = Len(h[s.id].props.entries)
         /\ \A i \in DOMAIN h[s.id].props.entries :
              MappedAtEachOccurrence(h, h[s.id].props.entries[i].val,
                                     out.props.entries[i].val, path \cup {s.id})
    /\ (out.type = TStr("array") /\ h[s.id].items.k = "node") =>
         MappedAtEachOccurrence(h, h[s.id].items, out.items, path \cup {s.id})
    \* where the mapper does not descend, the copy holds what the input holds
    /\ ~(out.type = TStr("object") /\ h[s.id].props.k = "map") => out.props = h[s.id].props
    /\ ~(out.type = TStr("array") /\ h[s.id].items.k = "node") => out.items = h[s.id].items

-----------------------------------------------------------------------------
(* Properties of generateInputSchemaAndDetails (SpecDetail) *)

NamesIn(params) == {params[i].name : i \in DOMAIN params} \ {""}

\* the names of a list in the order of their first occurrence
RECURSIVE FirstOccurrences(_, _)
FirstOccurrences(params, skip) ==
  IF params = <<>> THEN <<>>
  ELSE IF Head(params).name \in skip \cup {""}
  THEN FirstOccurrences(Tail(params), skip)
  ELSE <<Head(params).name>>
         \o FirstOccurrences(Tail(params), skip \cup {Head(params).name})

\* the last parameter of a list that has the name
LastNamed(params, name) ==
  params[CHOOSE i \in DOMAIN params :
           /\ params[i].name = name
           /\ \A j \in DOMAIN params : params[j].name = name => j <= i]

RequiredList(d) ==
  IF d.inputSchema.required.k = "array" THEN d.inputSchema.required.v ELSE <<>>

HasProperty(d, name) ==
  \E i \in DOMAIN d.inputSchema.properties.entries :
    d.inputSchema.properties.entries[i].key = name

PropertyOf(d, name) ==
  d.inputSchema.properties.entries[
    CHOOSE i \in DOMAIN d.inputSchema.properties.entries :
      d.inputSchema.properties.entries[i].key = name].val

\* C5: the merged list has one entry per distinct name of the two levels: the
\* path-level names in their declared order, then the names declared only at
\* operation level in their declared order; a name declared at operation
\* level has the operation-level parameter as its entry, whose schema and
\* required flag are the ones the input schema uses.
C5_MergedParameters ==
  details.k = "details" =>
    LET pathParameters      == ParametersOf(pathItem)
        operationParameters == ParametersOf(operation)
        merged == details.parameters
    IN  /\ [i \in DOMAIN merged |-> merged[i].name]
             = FirstOccurrences(pathParameters, {})
                 \o FirstOccurrences(operationParameters, NamesIn(pathParameters))
        /\ \A i \in DOMAIN merged :
             /\ merged[i] =
                  IF merged[i].name \in NamesIn(operationParameters)
                  THEN LastNamed(operationParameters, merged[i].name)
                  ELSE LastNamed(pathParameters, merged[i].name)
             /\ HasProperty(details, merged[i].name) <=> Truthy(merged[i].schema)
             /\ Truthy(merged[i].schema) =>
                  /\ PropertyOf(details, merged[i].name) =
                       Described(mapOpenApiSchemaToJsonSchema(
                                   heap, arrays, merged[i].schema, {}).out,
                                 merged[i].description)
                  /\ merged[i].name \in Range(RequiredList(details))
                       <=> merged[i].required

\* a name declared differently at both levels, after another path-level name,
\* and a name declared only at operation level
C5_Witness ==
  /\ details.k = "details"
  /\ Len(details.parameters) = 2
  /\ \E i \in DOMAIN ParametersOf(pathItem), j \in DOMAIN ParametersOf(operation) :
       /\ ParametersOf(pathItem)[i].name = ParametersOf(operation)[j].name
       /\ ParametersOf(pathItem)[i].name # ""
       /\ ParametersOf(pathItem)[i].required # ParametersOf(operation)[j].required
       /\ ParametersOf(pathItem)[i].schema # ParametersOf(operation)[j].schema
  /\ NamesIn(ParametersOf(operation)) \ NamesIn(ParametersOf(pathItem)) # {}

\* C7 as stated: the required list names every merged parameter whose
\* required flag is true.
C7_EveryRequiredParameterListed ==
  details.k = "details" =>
    \A i \in DOMAIN details.parameters :
      details.parameters[i].required =>
        details.parameters[i].name \in Range(RequiredList(details))

\* C7 as amended: the required list names a merged parameter exactly when its
\* required flag is true and it declares a schema (other than the boolean
\* false); a parameter without one is left out of properties and required.
C7_RequiredParametersWithSchemaListed ==
  details.k = "details" =>
    \A i \in DOMAIN details.parameters :
      details.parameters[i].name \in Range(RequiredList(details))
        <=> (details.parameters[i].required /\ Truthy(details.parameters[i].schema))

\* a required parameter with a schema next to a required one without
C7_Witness ==
  /\ details.k = "details"
  /\ \E i, j \in DOMAIN details.parameters :
       /\ details.parameters[i].required /\ details.parameters[i].schema.k = "node"
       /\ details.parameters[j].required /\ details.parameters[j].schema = Undef

\* the request body's JSON schema, when the JSON branch is taken
JsonSchemaOfBody == JsonSchemaOf(ContentEntries(operation.requestBody))

JsonBranchTaken ==
  /\ details.k = "details"
  /\ Truthy(operation.requestBody)
  /\ Truthy(JsonSchemaOfBody)

\* the description of the schema object a position holds
OwnDescription(h, s) == IF h[s.id].ref THEN Undef ELSE h[s.id].description

\* C8 as stated: the requestBody property is described by the mapped schema's
\* description, else by the request body's, else by the literal.
C8_SchemaDescriptionFirst ==
  JsonBranchTaken =>
    PropertyOf(details, "requestBody").description =
      IF Truthy(OwnDescription(heap, JsonSchemaOfBody))
      THEN OwnDescription(heap, JsonSchemaOfBody)
      ELSE IF Truthy(operation.requestBody.description)
      THEN operation.requestBody.description
      ELSE Str("The JSON request body.")

\* C8 as amended: the requestBody property is described by the request body's
\* description, else by the mapped schema's, else by the literal.
C8_BodyDescriptionFirst ==
  JsonBranchTaken =>
    PropertyOf(details, "requestBody").description =
      IF Truthy(operation.requestBody.description)
      THEN operation.requestBody.description
      ELSE IF Truthy(OwnDescription(heap, JsonSchemaOfBody))
      THEN OwnDescription(heap, JsonSchemaOfBody)
      ELSE Str("The JSON request body.")

\* the schema and the request body both carry a description
C8_Witness ==
  /\ JsonBranchTaken
  /\ Truthy(operation.requestBody.description)
  /\ Truthy(OwnDescription(heap, JsonSchemaOfBody))
  /\ operation.requestBody.description # OwnDescription(heap, JsonSchemaOfBody)

RequiredBody ==
  /\ details.k = "details"
  /\ Truthy(operation.requestBody)
  /\ operation.requestBody.required

\* C9 as stated: a required request body puts requestBody in the required
\* list, whatever its content map holds.
C9_RequiredBodyAlwaysListed ==
  RequiredBody => "requestBody" \in Range(RequiredList(details))

\* C9 as amended: a required request body puts requestBody in the required
\* list exactly when its content map has at least one entry.
C9_RequiredBodyListedWithContent ==
  RequiredBody =>
    ("requestBody" \in Range(RequiredList(details))
       <=> ContentEntries(operation.requestBody) # <<>>)

\* a required body whose only media type is application/json without schema
C9_Witness ==
  /\ RequiredBody
  /\ operation.requestBody.content = Map(<<Entry("application/json", Media(Undef))>>)
  /\ "requestBody" \in Range(RequiredList(details))

====
